---- MODULE Spec2Model ----
(***************************************************************************)
(* Annotation highlight rendering of the reader frontend                   *)
(* (packages/frontend/src/utils/highlightContent.ts): the range resolver   *)
(* resolveOverlappingAnnotations, the color rule getMostRecentColor, and   *)
(* the painters applyHighlightsToText and applyHighlightsToHtml.           *)
(*                                                                         *)
(* Offsets, timestamps and ids are small integers.  createdAt is the time  *)
(* value that `new Date(createdAt)` yields (the comparison in              *)
(* getMostRecentColor compares time values).                               *)
(***************************************************************************)
EXTENDS Integers, Sequences, FiniteSets, TLC

\* ------------------------------------------------------------- bounds
\* Annotations per list.
MaxAnns == 2
\* Greatest offset and greatest createdAt of the annotations handed to the
\* resolver alone (valid annotations only).
MaxOffset == 3
MaxTime == 2
\* The same for the lists that also hold annotations with
\* startOffset >= endOffset.
AnyMaxOffset == 2
AnyMaxTime == 1
\* Greatest offset of the annotations handed to the plain-text painter, and
\* to the markup painter.
PaintMaxOffset == 2
HtmlMaxOffset == 3
\* Characters of a plain-text content, and of one text leaf of a markup tree.
TextMaxLen == 2
\* Characters of the plain-text content of a book open in the reader.
ReaderMaxLen == 4
HtmlMaxLeaf == 3
\* Greatest offset of the body of a create request.
ApiMaxOffset == 1
\* Annotations per list, and their greatest offset, where three annotations
\* overlap.
OrderMaxAnns == 3
OrderMaxOffset == 2
\* The requests the reader page issues while a book is open.
MaxRequests == 3

VARIABLES
    annotations,        \* the annotations argument (a sequence of records)
    events,             \* the sorted events array of the resolver
    eventIdx,           \* position of the for-loop over events
    activeAnnotations,  \* the resolver's activeAnnotations array
    lastOffset,         \* the resolver's lastOffset
    ranges,             \* the resolver's ranges array (its return value)
    pc,                 \* where the call is
    fn,                 \* the exported function called: "resolve", "text" or "html"
    content,            \* the content argument of applyHighlightsToText
    result,             \* the string applyHighlightsToText returns
    parsed,             \* the tree DOMParser builds from `<div>${htmlContent}</div>`
    dom,                \* that tree as wrapRangeInMark mutates it
    textNodes,          \* the array buildTextNodeMap returns
    sortedRanges,       \* applyHighlightsToHtml's sortedRanges
    rangeIdx,           \* position of the loop over sortedRanges
    store,              \* the rows of the server's annotation table for the book
    requests,           \* the requests of the reader page that are in flight
    hoveredAnnotation,  \* ReaderContent's hoveredAnnotation state (<<>> for null)
    hideTimeoutRef,     \* hideTimeoutRef.current (<<>> for null)
    timers,             \* the ids of the timeouts that are pending in the browser
    pointer             \* what the mouse pointer is over, and which marker

resolverVars == <<annotations, events, eventIdx, activeAnnotations, lastOffset, ranges>>
textVars == <<content, result>>
htmlVars == <<parsed, dom, textNodes, sortedRanges, rangeIdx>>
pageVars == <<store, requests>>
hoverVars == <<hoveredAnnotation, hideTimeoutRef, timers, pointer>>
vars == <<annotations, events, eventIdx, activeAnnotations, lastOffset, ranges, pc,
          fn, content, result, parsed, dom, textNodes, sortedRanges, rangeIdx,
          store, requests, hoveredAnnotation, hideTimeoutRef, timers, pointer>>

\* ------------------------------------------------------------- helpers
Range(s) == {s[k] : k \in 1..Len(s)}

Max2(a, b) == IF a >= b THEN a ELSE b

Min2(a, b) == IF a <= b THEN a ELSE b

\* ------------------------------------------------------------- inputs
\* Each annotation id has its own color: the resolver never reads a color,
\* it only copies one into a span, so distinct colors tell the chosen
\* annotation apart.
Palette == <<"#ffeb3b", "#4caf50", "#2196f3", "#f44336", "#9c27b0">>

Ann(id, s, e, t) ==
    [id |-> id, startOffset |-> s, endOffset |-> e, createdAt |-> t, color |-> Palette[id]]

ValidAttrs(maxOff, maxTime) ==
    {<<s, e, t>> : s \in 0..maxOff, e \in 0..maxOff, t \in 1..maxTime}

\* Lists of exactly n annotations with the ids 1..n in ascending order, the
\* (startOffset, endOffset, createdAt) triples drawn from attrs.  The
\* resolver reads the order of the list only through events.sort, and
\* SortOutcomes of a list is SortOutcomes of each of its reorderings; of the
\* ids it reads nothing but their equality.
ListsOfLen(n, attrs) ==
    {[k \in 1..n |-> Ann(k, at[k][1], at[k][2], at[k][3])] : at \in [1..n -> attrs]}

AnnotationLists(maxN, attrs) == UNION {ListsOfLen(n, attrs) : n \in 0..maxN}

IsValidAnnotation(a) == 0 <= a.startOffset /\ a.startOffset < a.endOffset

\* ------------------------------------------------------------- resolver
\* The events array before sorting (lines 20-23): start, end per annotation,
\* in list order.
BuildEvents(anns) ==
    [k \in 1..(2 * Len(anns)) |->
        IF k % 2 = 1
        THEN [offset |-> anns[(k + 1) \div 2].startOffset, type |-> "start",
              annotation |-> anns[(k + 1) \div 2]]
        ELSE [offset |-> anns[k \div 2].endOffset, type |-> "end",
              annotation |-> anns[k \div 2]]]

\* A comparator that puts 'start' before 'end' at the same offset.
CompareEvents_StartFirst(a, b) ==
    IF a.offset # b.offset THEN a.offset - b.offset
    ELSE IF a.type = "start" THEN -1 ELSE 1

\* The comparator handed to events.sort (lines 26-29).
CompareEvents(a, b) ==
    IF a.offset # b.offset THEN a.offset - b.offset
    ELSE IF a.type = "end" THEN -1 ELSE 1

\* The comparator answers consistently for two events of different offset or
\* different type, and inconsistently (a before b and b before a) for two of
\* the same offset and type.  Array.prototype.sort with an inconsistent
\* comparator leaves the order implementation-defined; every comparison sort
\* still places a before b when both answers say so.
MustPrecede(a, b) == CompareEvents(a, b) < 0 /\ CompareEvents(b, a) > 0

\* Every array events.sort can leave: the orderings of the events that put a
\* before b whenever the comparator consistently says so.
RECURSIVE SortFrom(_, _)
SortFrom(evs, left) ==
    IF left = {} THEN {<<>>}
    ELSE UNION {{<<evs[x]>> \o r : r \in SortFrom(evs, left \ {x})} :
                  x \in {y \in left : \A z \in left \ {y} : ~MustPrecede(evs[z], evs[y])}}

SortOutcomes(evs) == SortFrom(evs, DOMAIN evs)

\* annotations.reduce((latest, a) => new Date(a.createdAt) > new Date(latest.createdAt) ? a : latest)
RECURSIVE ReduceLatest(_, _, _)
ReduceLatest(anns, k, latest) ==
    IF k > Len(anns) THEN latest
    ELSE ReduceLatest(anns, k + 1,
            IF anns[k].createdAt > latest.createdAt THEN anns[k] ELSE latest)

\* A reduce that keeps the earlier-created annotation.
RECURSIVE ReduceEarliest(_, _, _)
ReduceEarliest(anns, k, latest) ==
    IF k > Len(anns) THEN latest
    ELSE ReduceEarliest(anns, k + 1,
            IF anns[k].createdAt < latest.createdAt THEN anns[k] ELSE latest)

getMostRecentColor_Earliest(anns) == ReduceEarliest(anns, 2, anns[1]).color

\* Lines 58-64.
getMostRecentColor(anns) == ReduceLatest(anns, 2, anns[1]).color

\* activeAnnotations.findIndex(a => a.id === id): the first index, or -1.
FindIndex(active, id) ==
    IF \E k \in 1..Len(active) : active[k].id = id
    THEN CHOOSE k \in 1..Len(active) :
            active[k].id = id /\ \A j \in 1..(k - 1) : active[j].id # id
    ELSE -1

\* A removal that puts the last element in the place of the removed one.
Splice1_SwapRemove(s, idx) ==
    [k \in 1..(Len(s) - 1) |-> IF k = idx THEN s[Len(s)] ELSE s[k]]

\* splice(idx): everything from idx on is removed.
Splice1_Truncate(s, idx) == SubSeq(s, 1, idx - 1)

\* splice(idx, 1)
Splice1(s, idx) == [k \in 1..(Len(s) - 1) |-> IF k < idx THEN s[k] ELSE s[k + 1]]

\* The span pushed at line 37-42.
NewRange(active, from, to) ==
    [start |-> from, end |-> to,
     annotationIds |-> [k \in 1..Len(active) |-> active[k].id],
     color |-> getMostRecentColor(active)]

\* An emit that extends the previous span when the new one touches it.
EmitRange_Merge(rs, active, last, event) ==
    IF Len(active) > 0 /\ event.offset > last
    THEN IF Len(rs) > 0 /\ rs[Len(rs)].end = last
         THEN [rs EXCEPT ![Len(rs)].end = event.offset]
         ELSE Append(rs, NewRange(active, last, event.offset))
    ELSE rs

\* Lines 36-43: the ranges array after the emit test of one iteration.
EmitRange(rs, active, last, event) ==
    IF Len(active) > 0 /\ event.offset > last
    THEN Append(rs, NewRange(active, last, event.offset))
    ELSE rs

\* A removal that takes the last active annotation instead of the matching one.
ApplyEvent_Pop(active, event) ==
    IF event.type = "start" THEN Append(active, event.annotation)
    ELSE IF Len(active) > 0 THEN SubSeq(active, 1, Len(active) - 1) ELSE active

\* A removal whose test `idx > 0` misses the match at index 0 of the array.
ApplyEvent_SkipFirst(active, event) ==
    IF event.type = "start" THEN Append(active, event.annotation)
    ELSE LET idx == FindIndex(active, event.annotation.id)
         IN  IF idx > 1 THEN Splice1(active, idx) ELSE active

\* Lines 45-50: the active array after one event.
ApplyEvent(active, event) ==
    IF event.type = "start" THEN Append(active, event.annotation)
    ELSE LET idx == FindIndex(active, event.annotation.id)
         IN  IF idx >= 1 THEN Splice1(active, idx) ELSE active

\* A sweep that never advances lastOffset.
AdvanceOffset_Stale(last, event) == last

\* Line 52: lastOffset after one event.
AdvanceOffset(last, event) == event.offset

\* The annotations in ascending order of startOffset.
SortedByStartOffset(anns) ==
    CHOOSE s \in {[k \in 1..Len(anns) |-> anns[p[k]]] : p \in Permutations(1..Len(anns))} :
        \A i, j \in 1..Len(anns) : i < j => s[i].startOffset <= s[j].startOffset

\* A resolver that sorts the array it is given instead of an array of its
\* own.
ResolveCall_SortsArgument ==
    /\ pc = "call"
    /\ fn = "resolve" \/ Len(annotations) > 0
    /\ annotations' = SortedByStartOffset(annotations)
    /\ IF Len(annotations) = 0
       THEN /\ ranges' = <<>>
            /\ pc' = "resolved"
            /\ UNCHANGED <<events, eventIdx, activeAnnotations, lastOffset>>
       ELSE /\ events' \in SortOutcomes(BuildEvents(annotations))
            /\ ranges' = <<>>
            /\ activeAnnotations' = <<>>
            /\ lastOffset' = 0
            /\ eventIdx' = 1
            /\ pc' = "sweep"
    /\ UNCHANGED <<fn, textVars, htmlVars>>
    /\ UNCHANGED <<pageVars, hoverVars>>

\* resolveOverlappingAnnotations, lines 14-33: the empty-list return, the
\* events array, its sort, and the loop's initial state.
ResolveCall ==
    /\ pc = "call"
    /\ fn = "resolve" \/ Len(annotations) > 0
    /\ IF Len(annotations) = 0
       THEN /\ ranges' = <<>>
            /\ pc' = "resolved"
            /\ UNCHANGED <<events, eventIdx, activeAnnotations, lastOffset>>
       ELSE /\ events' \in SortOutcomes(BuildEvents(annotations))
            /\ ranges' = <<>>
            /\ activeAnnotations' = <<>>
            /\ lastOffset' = 0
            /\ eventIdx' = 1
            /\ pc' = "sweep"
    /\ UNCHANGED <<annotations, fn, textVars, htmlVars>>
    /\ UNCHANGED <<pageVars, hoverVars>>

\* One iteration of the loop over events (lines 35-53).
SweepEvent ==
    /\ pc = "sweep"
    /\ eventIdx <= Len(events)
    /\ LET event == events[eventIdx] IN
        /\ ranges' = EmitRange(ranges, activeAnnotations, lastOffset, event)
        /\ activeAnnotations' = ApplyEvent(activeAnnotations, event)
        /\ lastOffset' = AdvanceOffset(lastOffset, event)
    /\ eventIdx' = eventIdx + 1
    /\ UNCHANGED <<annotations, events, pc, fn, textVars, htmlVars>>
    /\ UNCHANGED <<pageVars, hoverVars>>

\* Line 55: the loop is over, ranges is returned and the locals are gone.
ResolveReturn ==
    /\ pc = "sweep"
    /\ eventIdx > Len(events)
    /\ pc' = "resolved"
    /\ events' = <<>>
    /\ eventIdx' = 0
    /\ activeAnnotations' = <<>>
    /\ lastOffset' = 0
    /\ UNCHANGED <<annotations, ranges, fn, textVars, htmlVars>>
    /\ UNCHANGED <<pageVars, hoverVars>>

ResolverInit ==
    /\ events = <<>>
    /\ eventIdx = 0
    /\ activeAnnotations = <<>>
    /\ lastOffset = 0
    /\ ranges = <<>>
    /\ pc = "call"

\* ------------------------------------------------------------- plain text
\* Strings are sequences of one-character strings; the fixed pieces of the
\* mark template that hold no character special to HTML are single elements.

\* text.replace(/ch/g, rep)
RECURSIVE ReplaceAll(_, _, _)
ReplaceAll(text, ch, rep) ==
    IF text = <<>> THEN <<>>
    ELSE (IF Head(text) = ch THEN rep ELSE <<Head(text)>>) \o ReplaceAll(Tail(text), ch, rep)

AmpEntity == <<"&", "a", "m", "p", ";">>
LtEntity == <<"&", "l", "t", ";">>
GtEntity == <<"&", "g", "t", ";">>
QuotEntity == <<"&", "q", "u", "o", "t", ";">>
AposEntity == <<"&", "#", "0", "3", "9", ";">>

\* An escapeHtml whose replacement of & comes last.
escapeHtml_AmpLast(text) ==
    ReplaceAll(ReplaceAll(ReplaceAll(ReplaceAll(ReplaceAll(text,
        "<", LtEntity), ">", GtEntity), "\"", QuotEntity), "'", AposEntity), "&", AmpEntity)

\* Lines 82-89: the five replacements, in the code's order.
escapeHtml(text) ==
    ReplaceAll(ReplaceAll(ReplaceAll(ReplaceAll(ReplaceAll(text,
        "&", AmpEntity), "<", LtEntity), ">", GtEntity), "\"", QuotEntity), "'", AposEntity)

\* annotationIds.join(',')
RECURSIVE JoinIds(_)
JoinIds(ids) ==
    IF ids = <<>> THEN <<>>
    ELSE IF Len(ids) = 1 THEN <<ToString(ids[1])>>
    ELSE <<ToString(ids[1]), ",">> \o JoinIds(Tail(ids))

\* A primary id read at index 1 of the array instead of index 0.
FirstId_Second(ids) == IF Len(ids) < 2 THEN "undefined" ELSE ToString(ids[2])

\* `${annotationIds[0]}`: the string "undefined" for an empty array.
FirstId(ids) == IF Len(ids) = 0 THEN "undefined" ELSE ToString(ids[1])

\* The alpha suffix of line 71.
AlphaSuffix == "66"

\* A mark whose primary id is the last contributing id.
createMarkOpen_LastId(ids, color) ==
    <<"<", "mark data-annotation-id=", "\"", ToString(ids[Len(ids)]), "\"",
      " data-annotation-ids=", "\"">> \o JoinIds(ids) \o
    <<"\"", " style=", "\"", "background-color: ", color, AlphaSuffix, ";", "\"", ">">>

\* Lines 69-73.
createMarkOpen(ids, color) ==
    <<"<", "mark data-annotation-id=", "\"", FirstId(ids), "\"",
      " data-annotation-ids=", "\"">> \o JoinIds(ids) \o
    <<"\"", " style=", "\"", "background-color: ", color, AlphaSuffix, ";", "\"", ">">>

\* Lines 75-77.
createMarkClose == <<"<", "/mark", ">">>

\* String.prototype.slice(from, to) for from, to >= 0.
Slice(text, from, to) ==
    LET f == Min2(from, Len(text))
        t == Min2(to, Len(text))
    IN  IF f >= t THEN <<>> ELSE SubSeq(text, f + 1, t)

\* The loop of lines 109-122 from range k on, then lines 124-129.
RECURSIVE TextLoop(_, _, _, _, _)
TextLoop(text, rs, k, res, lastIndex) ==
    IF k > Len(rs)
    THEN IF lastIndex < Len(text)
         THEN res \o escapeHtml(Slice(text, lastIndex, Len(text)))
         ELSE res
    ELSE LET r == rs[k]
             before == IF r.start > lastIndex
                       THEN res \o escapeHtml(Slice(text, lastIndex, r.start))
                       ELSE res
         IN  TextLoop(text, rs, k + 1,
                      before \o createMarkOpen(r.annotationIds, r.color)
                             \o escapeHtml(Slice(text, r.start, r.end))
                             \o createMarkClose,
                      r.end)

\* The characters of plain-text content: the five that escapeHtml replaces
\* and one that it leaves.
TextAlphabet == {"a", "&", "<", ">", "\"", "'"}

Contents == UNION {[1..n -> TextAlphabet] : n \in 0..TextMaxLen}

\* applyHighlightsToText, lines 96-98: no annotation.  The content argument
\* is drawn where the function first reads it.
PaintTextEmpty ==
    /\ pc = "call"
    /\ fn = "text"
    /\ Len(annotations) = 0
    /\ \E c \in Contents :
          /\ content' = c
          /\ result' = escapeHtml(c)
    /\ pc' = "painted"
    /\ UNCHANGED <<resolverVars, fn, htmlVars>>
    /\ UNCHANGED <<pageVars, hoverVars>>

\* applyHighlightsToText, lines 100-129, once the resolver has returned.
PaintText ==
    /\ pc = "resolved"
    /\ fn = "text"
    /\ \E c \in Contents :
          /\ content' = c
          /\ result' = IF Len(ranges) = 0 THEN escapeHtml(c)
                       ELSE TextLoop(c, ranges, 1, <<>>, 0)
    /\ pc' = "painted"
    /\ UNCHANGED <<resolverVars, fn, htmlVars>>
    /\ UNCHANGED <<pageVars, hoverVars>>

\* ------------------------------------------------------------- markup
\* The document is a function from node ids to nodes.  A node is an element
\* (tag, attrs, children) or a text node (data); parent is 0 for a node that
\* is in no tree.  Node 1 is the wrapping div, applyHighlightsToHtml's root.
\* The character at flattened offset k of the parsed document is written k:
\* the painter never reads a character, and distinct characters tell every
\* loss, duplication and reordering apart.
Root == 1

NextId(d) == Cardinality(DOMAIN d) + 1

ElementNode(tag, attrs, parent) ==
    [kind |-> "element", tag |-> tag, attrs |-> attrs, parent |-> parent,
     children |-> <<>>, data |-> <<>>]

TextNode(data, parent) ==
    [kind |-> "text", tag |-> "#text", attrs |-> <<>>, parent |-> parent,
     children |-> <<>>, data |-> data]

IndexOf(seq, x) == CHOOSE k \in 1..Len(seq) : seq[k] = x

RemoveAt(seq, k) == [j \in 1..(Len(seq) - 1) |-> IF j < k THEN seq[j] ELSE seq[j + 1]]

InsertAt(seq, k, x) ==
    [j \in 1..(Len(seq) + 1) |-> IF j < k THEN seq[j] ELSE IF j = k THEN x ELSE seq[j - 1]]

\* The removal of a node from its parent that insertBefore and appendChild
\* begin with.
Detach(d, n) ==
    IF d[n].parent = 0 THEN d
    ELSE LET p == d[n].parent
         IN  [d EXCEPT ![p].children = RemoveAt(@, IndexOf(@, n)), ![n].parent = 0]

\* parent.insertBefore(new, ref)
InsertBefore(d, parent, new, ref) ==
    LET d1 == Detach(d, new)
    IN  [d1 EXCEPT ![parent].children = InsertAt(@, IndexOf(@, ref), new),
                   ![new].parent = parent]

\* parent.appendChild(child)
AppendChild(d, parent, child) ==
    LET d1 == Detach(d, child)
    IN  [d1 EXCEPT ![parent].children = Append(@, child), ![child].parent = parent]

\* node.parentNode?.insertBefore(new, node): nothing for a node with no parent.
InsertBeforeNode(d, new, node) ==
    IF d[node].parent = 0 THEN d ELSE InsertBefore(d, d[node].parent, new, node)

\* A splitText after which node keeps the rest and the new text node, put
\* before it, holds data[0, offset).
SplitText_KeepTail(d, node, offset) ==
    LET new == NextId(d)
        p == d[node].parent
        len == Len(d[node].data)
        d1 == [d EXCEPT ![node].data = SubSeq(@, offset + 1, len)] @@
              (new :> TextNode(SubSeq(d[node].data, 1, offset), p))
    IN  IF p = 0 THEN d1
        ELSE [d1 EXCEPT ![p].children = InsertAt(@, IndexOf(@, node), new)]

\* node.splitText(offset): node keeps data[0, offset), the new text node
\* NextId(d) holds the rest and becomes node's next sibling.
SplitText(d, node, offset) ==
    LET new == NextId(d)
        p == d[node].parent
        len == Len(d[node].data)
        d1 == [d EXCEPT ![node].data = SubSeq(@, 1, offset)] @@
              (new :> TextNode(SubSeq(d[node].data, offset + 1, len), p))
    IN  IF p = 0 THEN d1
        ELSE [d1 EXCEPT ![p].children = InsertAt(@, IndexOf(@, node) + 1, new)]

\* Lines 195-198: the mark element of a range, node NextId(d).
CreateMark(d, range) ==
    d @@ (NextId(d) :>
            ElementNode("mark",
                        <<FirstId(range.annotationIds), JoinIds(range.annotationIds),
                          <<range.color, AlphaSuffix>>>>, 0))

\* The text nodes under n in document order (the TreeWalker of line 145).
RECURSIVE TextLeaves(_, _)
RECURSIVE TextLeavesOf(_, _, _)
TextLeaves(d, n) ==
    IF d[n].kind = "text" THEN <<n>> ELSE TextLeavesOf(d, d[n].children, 1)

TextLeavesOf(d, kids, k) ==
    IF k > Len(kids) THEN <<>>
    ELSE TextLeaves(d, kids[k]) \o TextLeavesOf(d, kids, k + 1)

\* The loop of lines 148-159 over the leaves from k on.
RECURSIVE TextNodeMapFrom(_, _, _, _)
TextNodeMapFrom(d, leaves, k, currentOffset) ==
    IF k > Len(leaves) THEN <<>>
    ELSE LET length == Len(d[leaves[k]].data)
         IN  IF length > 0
             THEN <<[node |-> leaves[k], startOffset |-> currentOffset,
                     endOffset |-> currentOffset + length]>>
                  \o TextNodeMapFrom(d, leaves, k + 1, currentOffset + length)
             ELSE TextNodeMapFrom(d, leaves, k + 1, currentOffset)

\* Lines 141-162.
buildTextNodeMap(d, root) == TextNodeMapFrom(d, TextLeaves(d, root), 1, 0)

\* A whole-node wrap that puts the mark before the node's parent element.
WrapWhole_BeforeParent(d, node, range) ==
    LET mark == NextId(d)
        d1 == CreateMark(d, range)
        p == d[node].parent
    IN  AppendChild(IF p # Root THEN InsertBeforeNode(d1, mark, p)
                    ELSE InsertBeforeNode(d1, mark, node), mark, node)

\* Lines 200-203: the range covers the whole node.
WrapWhole(d, node, range) ==
    LET mark == NextId(d)
        d1 == CreateMark(d, range)
    IN  AppendChild(InsertBeforeNode(d1, mark, node), mark, node)

\* Lines 204-209: the range covers the node from its beginning.
WrapFromStart(d, node, nodeEnd, range) ==
    LET mark == NextId(d)
        d1 == CreateMark(d, range)
        highlighted == NextId(d1)
        d2 == SplitText(d1, node, nodeEnd)
        d3 == InsertBeforeNode(d2, node, highlighted)
    IN  AppendChild(InsertBeforeNode(d3, mark, node), mark, node)

\* A wrap to the end that inserts the mark before the node instead of
\* before the split-off part.
WrapToEnd_BeforeNode(d, node, nodeStart, range) ==
    LET mark == NextId(d)
        d1 == CreateMark(d, range)
        highlighted == NextId(d1)
        d2 == SplitText(d1, node, nodeStart)
    IN  AppendChild(InsertBeforeNode(d2, mark, node), mark, highlighted)

\* Lines 210-214: the range covers the node to its end.
WrapToEnd(d, node, nodeStart, range) ==
    LET mark == NextId(d)
        d1 == CreateMark(d, range)
        highlighted == NextId(d1)
        d2 == SplitText(d1, node, nodeStart)
    IN  AppendChild(InsertBeforeNode(d2, mark, highlighted), mark, highlighted)

\* Lines 215-221: the range covers a middle part of the node.
WrapMiddle(d, node, nodeStart, nodeEnd, range) ==
    LET mark == NextId(d)
        d1 == CreateMark(d, range)
        middle == NextId(d1)
        d2 == SplitText(d1, node, nodeStart)
        d3 == SplitText(d2, middle, nodeEnd - nodeStart)
    IN  AppendChild(InsertBeforeNode(d3, mark, middle), mark, middle)

\* Lines 182-221: one iteration of the loop over the intersecting nodes.
WrapNode(d, info, range) ==
    LET node == info.node
        length == Len(d[node].data)
        nodeStart == Max2(0, range.start - info.startOffset)
        nodeEnd == Min2(length, range.end - info.startOffset)
    IN  IF nodeStart >= nodeEnd THEN d
        ELSE IF nodeStart = 0 /\ nodeEnd = length THEN WrapWhole(d, node, range)
        ELSE IF nodeStart = 0 THEN WrapFromStart(d, node, nodeEnd, range)
        ELSE IF nodeEnd = length THEN WrapToEnd(d, node, nodeStart, range)
        ELSE WrapMiddle(d, node, nodeStart, nodeEnd, range)

\* The loop of line 181, from index i down to 1.
RECURSIVE WrapNodesFrom(_, _, _, _)
WrapNodesFrom(d, nodes, i, range) ==
    IF i < 1 THEN d
    ELSE WrapNodesFrom(WrapNode(d, nodes[i], range), nodes, i - 1, range)

\* A filter that keeps only the first intersecting node.
IntersectingNodes_First(map, range) ==
    LET all == SelectSeq(map, LAMBDA info :
                   info.endOffset > range.start /\ info.startOffset < range.end)
    IN  IF Len(all) = 0 THEN all ELSE <<all[1]>>

\* Lines 174-176.
IntersectingNodes(map, range) ==
    SelectSeq(map, LAMBDA info : info.endOffset > range.start /\ info.startOffset < range.end)

\* Lines 168-223.
wrapRangeInMark(d, map, range) ==
    LET nodes == IntersectingNodes(map, range)
    IN  IF Len(nodes) = 0 THEN d ELSE WrapNodesFrom(d, nodes, Len(nodes), range)

\* [...ranges].sort((a, b) => b.start - a.start): a stable sort, descending
\* in start.
RECURSIVE InsertByStartDesc(_, _)
InsertByStartDesc(sorted, r) ==
    IF sorted = <<>> THEN <<r>>
    ELSE IF Head(sorted).start >= r.start
         THEN <<Head(sorted)>> \o InsertByStartDesc(Tail(sorted), r)
         ELSE <<r>> \o sorted

\* The ranges left in the order the resolver returned them, ascending.
SortByStartDesc_Unsorted(rs) == rs

RECURSIVE SortByStartDesc(_)
SortByStartDesc(rs) ==
    IF rs = <<>> THEN <<>>
    ELSE InsertByStartDesc(SortByStartDesc(SubSeq(rs, 1, Len(rs) - 1)), rs[Len(rs)])

\* The characters first .. first + n - 1 of the flattened text.
Chars(first, n) == [k \in 1..n |-> first + k - 1]

\* d with a new last child of parent: a text node of n characters (none when
\* n = 0) or an element.
WithText(d, parent, first, n) ==
    IF n = 0 THEN d
    ELSE [d EXCEPT ![parent].children = Append(@, NextId(d))] @@
         (NextId(d) :> TextNode(Chars(first, n), parent))

WithElement(d, parent, tag) ==
    [d EXCEPT ![parent].children = Append(@, NextId(d))] @@
    (NextId(d) :> ElementNode(tag, <<>>, parent))

EmptyDocument == (Root :> ElementNode("div", <<>>, 0))

\* The parsed tree of `<div>t1<p>t2<b>t3</b>t4</p></div>` for texts of
\* n1..n4 characters; a text of no character leaves no text node.
ParsedTree(n1, n2, n3, n4) ==
    LET d1 == WithText(EmptyDocument, Root, 0, n1)
        p == NextId(d1)
        d2 == WithText(WithElement(d1, Root, "p"), p, n1, n2)
        b == NextId(d2)
        d3 == WithText(WithElement(d2, p, "b"), b, n1 + n2, n3)
    IN  WithText(d3, p, n1 + n2 + n3, n4)

\* A text of no character, of one (the painter can only wrap it whole), or
\* of HtmlMaxLeaf (the painter can cut it at either end or in the middle).
LeafLengths == {0, 1, HtmlMaxLeaf}

ParsedTrees ==
    {ParsedTree(n1, n2, n3, n4) :
        n1 \in LeafLengths, n2 \in LeafLengths, n3 \in LeafLengths, n4 \in LeafLengths}

\* The document of a markup in which the parser finds no element for
\* doc.body.firstElementChild: root is null.
NoRootDocument ==
    (Root :> [kind |-> "null", tag |-> "", attrs |-> <<>>, parent |-> 0,
              children |-> <<>>, data |-> <<>>])

Documents == ParsedTrees \cup {NoRootDocument}

\* The test of line 244.
HasRoot(d) == d[Root].kind = "element"

\* A painter that has no test for a null root.
ReturnsMarkup_NoRootTest(d, rs) == Len(rs) = 0

\* Lines 235-237 and 244-246: the markup is returned as it came.
ReturnsMarkup(d, rs) == Len(rs) = 0 \/ ~HasRoot(d)

\* applyHighlightsToHtml, lines 234-252, once the resolver has returned and
\* for the document d that the parser builds: the markup returned as it
\* came, or the text node map and the sorted ranges (createTreeWalker
\* throws a TypeError for a root that is null).
BeginHtml(d) ==
    /\ parsed' = d
    /\ dom' = d
    /\ IF ReturnsMarkup(d, ranges)
       THEN /\ pc' = "painted"
            /\ UNCHANGED <<textNodes, sortedRanges, rangeIdx>>
       ELSE IF ~HasRoot(d)
       THEN /\ pc' = "thrown"
            /\ UNCHANGED <<textNodes, sortedRanges, rangeIdx>>
       ELSE /\ textNodes' = buildTextNodeMap(d, Root)
            /\ sortedRanges' = SortByStartDesc(ranges)
            /\ rangeIdx' = 1
            /\ pc' = "wrapping"

\* applyHighlightsToHtml, lines 230-232: no annotation, the markup is
\* returned as it came.  The markup argument is drawn where the function
\* first reads it, as the tree a parser makes of it.
PaintHtmlEmpty ==
    /\ pc = "call"
    /\ fn = "html"
    /\ Len(annotations) = 0
    /\ \E t \in Documents :
          /\ parsed' = t
          /\ dom' = t
    /\ pc' = "painted"
    /\ UNCHANGED <<resolverVars, fn, textVars, textNodes, sortedRanges, rangeIdx>>
    /\ UNCHANGED <<pageVars, hoverVars>>

\* applyHighlightsToHtml, lines 234-252, once the resolver has returned, on
\* the document the parser builds of the markup argument.
PaintHtmlBegin ==
    /\ pc = "resolved"
    /\ fn = "html"
    /\ \E t \in Documents : BeginHtml(t)
    /\ UNCHANGED <<resolverVars, fn, textVars>>
    /\ UNCHANGED <<pageVars, hoverVars>>

\* One iteration of the loop of lines 254-256; after the last one the tree
\* is serialized and returned (line 258).
WrapRange ==
    /\ pc = "wrapping"
    /\ rangeIdx <= Len(sortedRanges)
    /\ dom' = wrapRangeInMark(dom, textNodes, sortedRanges[rangeIdx])
    /\ rangeIdx' = rangeIdx + 1
    /\ pc' = IF rangeIdx = Len(sortedRanges) THEN "painted" ELSE "wrapping"
    /\ UNCHANGED <<resolverVars, fn, textVars, parsed, textNodes, sortedRanges>>
    /\ UNCHANGED <<pageVars, hoverVars>>

\* ------------------------------------------------------------- reader
IsPrefix(p, text) == Len(p) <= Len(text) /\ SubSeq(text, 1, Len(p)) = p

Entities ==
    {<<AmpEntity, "&">>, <<LtEntity, "<">>, <<GtEntity, ">">>,
     <<QuotEntity, "\"">>, <<AposEntity, "'">>}

\* The string set as innerHTML, as the browser's parser reads it: a tag from
\* "<" to the next ">" when a tag name follows the "<" (a tag the text ends
\* in is dropped), a character reference, or a character; a "<" that no
\* tag name follows is a character.
Specials == {"&", "<", ">", "\"", "'"}

RECURSIVE Tokens(_)
Tokens(text) ==
    IF text = <<>> THEN <<>>
    ELSE IF Head(text) = "<" /\ Len(text) > 1 /\ text[2] \notin Specials
    THEN LET close == {k \in 1..Len(text) : text[k] = ">"}
             gt == IF close = {} THEN Len(text) + 1
                   ELSE CHOOSE k \in close : \A j \in close : k <= j
         IN  <<[kind |-> "tag", body |-> SubSeq(text, 2, gt - 1)]>>
             \o Tokens(SubSeq(text, gt + 1, Len(text)))
    ELSE IF \E e \in Entities : IsPrefix(e[1], text)
    THEN LET e == CHOOSE x \in Entities : IsPrefix(x[1], text)
         IN  <<[kind |-> "char", body |-> <<e[2]>>]>>
             \o Tokens(SubSeq(text, Len(e[1]) + 1, Len(text)))
    ELSE <<[kind |-> "char", body |-> <<Head(text)>>]>> \o Tokens(Tail(text))

\* The text nodes the browser builds from the token stream, in document
\* order: each run of characters between two tags; cur is the run being read.
RECURSIVE TextRuns(_, _, _)
TextRuns(toks, k, cur) ==
    IF k > Len(toks) THEN (IF cur = <<>> THEN <<>> ELSE <<cur>>)
    ELSE IF toks[k].kind = "char" THEN TextRuns(toks, k + 1, cur \o toks[k].body)
    ELSE (IF cur = <<>> THEN <<>> ELSE <<cur>>) \o TextRuns(toks, k + 1, <<>>)

\* The data of the text nodes under the reader's container, in the order a
\* TreeWalker visits them: of the string set as innerHTML of the pre element
\* (ReaderContent lines 182-186), or of the markup tree (lines 177-180).
RenderedTextNodes ==
    IF fn = "text" THEN TextRuns(Tokens(result), 1, <<>>)
    ELSE LET leaves == TextLeaves(dom, Root)
         IN  [k \in 1..Len(leaves) |-> dom[leaves[k]].data]

\* The nodes of the tree under n, n included.
RECURSIVE NodesUnder(_, _)
NodesUnder(d, n) == {n} \cup UNION {NodesUnder(d, c) : c \in Range(d[n].children)}

IsMarker(d, n) == d[n].kind = "element" /\ d[n].tag = "mark"

Markers(d) == {n \in NodesUnder(d, Root) : IsMarker(d, n)}

\* The pieces of a tag between its double quotes: attribute names at the
\* odd places, attribute values at the even ones.
RECURSIVE SplitOnQuote(_, _)
SplitOnQuote(body, piece) ==
    IF body = <<>> THEN <<piece>>
    ELSE IF Head(body) = "\"" THEN <<piece>> \o SplitOnQuote(Tail(body), <<>>)
    ELSE SplitOnQuote(Tail(body), Append(piece, Head(body)))

\* The mark elements of the token stream from token k on, each with its tag,
\* the offset of its first character in the visible text and its text; open
\* is the mark being read, if any, and pos the visible characters read.
RECURSIVE MarksFrom(_, _, _, _)
MarksFrom(toks, k, pos, open) ==
    IF k > Len(toks) THEN <<>>
    ELSE IF toks[k].kind = "char"
    THEN MarksFrom(toks, k + 1, pos + 1,
                   IF open = <<>> THEN open
                   ELSE <<[open[1] EXCEPT !.text = @ \o toks[k].body]>>)
    ELSE IF toks[k].body = <<"/mark">>
    THEN open \o MarksFrom(toks, k + 1, pos, <<>>)
    ELSE MarksFrom(toks, k + 1, pos,
                   <<[attrs |-> SplitOnQuote(toks[k].body, <<>>), start |-> pos,
                      text |-> <<>>]>>)

TextMarks == MarksFrom(Tokens(result), 1, 0, <<>>)

\* The loop of useTextSelection lines 34-40 from text node k on, looking
\* for text node i.
RECURSIVE OffsetFrom(_, _, _, _, _)
OffsetFrom(nodes, k, i, offset, totalOffset) ==
    IF k > Len(nodes) THEN totalOffset
    ELSE IF k = i THEN totalOffset + offset
    ELSE OffsetFrom(nodes, k + 1, i, offset, totalOffset + Len(nodes[k]))

\* useTextSelection lines 22-43, for the offset-th position of text node i.
calculateOffset(nodes, i, offset) == OffsetFrom(nodes, 1, i, offset, 0)

\* The book's content as the server returns it for format text: letters,
\* white space and the two characters that delimit a tag.
ReaderAlphabet == {"a", " ", "<", ">"}

ReaderContents == UNION {[1..n -> ReaderAlphabet] : n \in 0..ReaderMaxLen}

\* An id the server has given to no annotation of the list.
FreshId(anns) ==
    CHOOSE id \in 1..(Len(anns) + 1) : \A k \in 1..Len(anns) : anns[k].id # id

\* The greatest offset of a selection.
SelectionMaxOffset == IF fn = "text" THEN PaintMaxOffset ELSE HtmlMaxOffset

\* The pointer over neither a marker nor the tooltip.
NoMark == [primary |-> <<>>, color |-> ""]

Away == [over |-> "away", mark |-> NoMark]

\* ReaderContent lines 55-60: hideTimeoutRef and the pending timeouts after
\* clearHideTimeout.
ClearedTimers == timers \ Range(hideTimeoutRef)

\* A new annotations array makes useMemo compute highlightedContent again
\* (ReaderContent lines 44-52) and React run the cleanup of the hover
\* effect, which calls clearHideTimeout, and the effect again (lines
\* 71-106).
Rerender ==
    /\ hideTimeoutRef' = <<>>
    /\ timers' = ClearedTimers
    /\ pc' = "call"
    /\ events' = <<>>
    /\ eventIdx' = 0
    /\ activeAnnotations' = <<>>
    /\ lastOffset' = 0
    /\ ranges' = <<>>
    /\ result' = <<>>
    /\ dom' = parsed
    /\ textNodes' = <<>>
    /\ sortedRanges' = <<>>
    /\ rangeIdx' = 0
    /\ UNCHANGED <<fn, content, parsed>>

\* ReaderContent lines 45-47: with no annotation the content is handed to
\* the reading surface as it came, whatever the format.
ReaderRenderEmpty ==
    /\ pc = "call"
    /\ Len(annotations) = 0
    /\ result' = IF fn = "text" THEN content ELSE result
    /\ pc' = "painted"
    /\ UNCHANGED <<resolverVars, fn, content, htmlVars>>
    /\ UNCHANGED <<pageVars, hoverVars>>

\* ReaderContent line 51: applyHighlightsToText(content, annotations), lines
\* 100-129 of highlightContent.ts, once the resolver has returned.
ReaderPaintText ==
    /\ pc = "resolved"
    /\ fn = "text"
    /\ result' = IF Len(ranges) = 0 THEN escapeHtml(content)
                 ELSE TextLoop(content, ranges, 1, <<>>, 0)
    /\ pc' = "painted"
    /\ UNCHANGED <<resolverVars, fn, content, htmlVars>>
    /\ UNCHANGED <<pageVars, hoverVars>>

\* ReaderContent line 50: applyHighlightsToHtml(content, annotations), lines
\* 234-252 of highlightContent.ts, once the resolver has returned.
ReaderPaintHtml ==
    /\ pc = "resolved"
    /\ fn = "html"
    /\ BeginHtml(parsed)
    /\ UNCHANGED <<resolverVars, fn, textVars>>
    /\ UNCHANGED <<pageVars, hoverVars>>

\* The text nodes of the container as one string.
RECURSIVE Flatten(_)
Flatten(nodes) == IF nodes = <<>> THEN <<>> ELSE Head(nodes) \o Flatten(Tail(nodes))

\* White space of a plain-text content; the characters of a markup tree
\* stand for characters that are not white space.
IsSpace(ch) == fn = "text" /\ ch = " "

\* String.prototype.trim
RECURSIVE Trim(_)
Trim(text) ==
    IF text = <<>> THEN text
    ELSE IF IsSpace(Head(text)) THEN Trim(Tail(text))
    ELSE IF IsSpace(text[Len(text)]) THEN Trim(SubSeq(text, 1, Len(text) - 1))
    ELSE text

\* useTextSelection line 58: windowSelection.toString().trim() for the
\* selection whose boundary points calculateOffset maps to startOffset and
\* endOffset.
SelectedText(nodes, startOffset, endOffset) ==
    Trim(SubSeq(Flatten(nodes), startOffset + 1, endOffset))

\* The annotation the server returns for a create request (annotation
\* service lines 38-59, formatAnnotation 203-223).
SavedAnnotation(id, startOffset, endOffset, createdAt, text) ==
    [id |-> id, startOffset |-> startOffset, endOffset |-> endOffset,
     createdAt |-> createdAt, color |-> Palette[id], selectedText |-> text]

\* A selection made on the rendered output and saved with a click in the
\* annotation popup, the pointer over no marker: useTextSelection
\* lines 58-99 take its trimmed text and compute its offsets from the text
\* nodes of the container, ReaderPage lines 236-250 send them to the server,
\* which stores them, and append the annotation the server returns.
CreateAnnotation ==
    /\ pc = "painted"
    /\ pointer.over = "away"
    /\ Len(annotations) < MaxAnns
    /\ \E i, j \in 1..Len(RenderedTextNodes) :
          \E a \in 0..Len(RenderedTextNodes[i]), b \in 0..Len(RenderedTextNodes[j]) :
              LET startOffset == calculateOffset(RenderedTextNodes, i, a)
                  endOffset == calculateOffset(RenderedTextNodes, j, b)
                  text == SelectedText(RenderedTextNodes, startOffset, endOffset)
                  saved == SavedAnnotation(FreshId(annotations), startOffset, endOffset,
                                           1, text)
              IN  /\ Len(text) > 0
                  /\ startOffset < endOffset
                  /\ endOffset <= SelectionMaxOffset
                  /\ store' = Append(store, saved)
                  /\ annotations' = Append(annotations, saved)
    /\ Rerender
    /\ UNCHANGED <<requests, hoveredAnnotation, pointer>>

\* ReaderPage lines 272-276, for a click in the annotation sidebar.
DeleteAnnotation ==
    /\ pc = "painted"
    /\ pointer.over = "away"
    /\ \E k \in 1..Len(annotations) :
          /\ store' = SelectSeq(store, LAMBDA row : row.id # annotations[k].id)
          /\ annotations' = [j \in 1..(Len(annotations) - 1) |->
                                 IF j < k THEN annotations[j] ELSE annotations[j + 1]]
    /\ Rerender
    /\ UNCHANGED <<requests, hoveredAnnotation, pointer>>

\* ------------------------------------------------------------- hover
\* The markers of the rendered output that the pointer can be over (those
\* with text), each with its data-annotation-id and the color of its
\* background.
HoverableMarks ==
    IF fn = "text"
    THEN LET marks == TextMarks
         IN  {[primary |-> marks[i].attrs[2], color |-> marks[i].attrs[6][2]] :
                 i \in {j \in 1..Len(marks) : Len(marks[j].text) > 0}}
    ELSE {[primary |-> <<dom[m].attrs[1]>>, color |-> dom[m].attrs[3][1]] :
             m \in Markers(dom)}

\* annotations.find(a => a.id === annotationId): <<>> for undefined.
FindAnnotation(anns, annotationId) ==
    LET hits == SelectSeq(anns, LAMBDA a : <<ToString(a.id)>> = annotationId)
    IN  IF Len(hits) = 0 THEN <<>> ELSE <<hits[1]>>

\* The id setTimeout returns: one no pending timeout has.
NewTimer(pending) == CHOOSE id \in 1..(Cardinality(pending) + 1) : id \notin pending

\* ReaderContent lines 63-68: scheduleHide.
ScheduleHide ==
    /\ hideTimeoutRef' = <<NewTimer(ClearedTimers)>>
    /\ timers' = ClearedTimers \cup {NewTimer(ClearedTimers)}

\* The pointer comes over a marker: handleMouseOver, lines 75-89.
MouseOverMark ==
    /\ pc = "painted"
    /\ pointer.over = "away"
    /\ \E mk \in HoverableMarks :
          /\ pointer' = [over |-> "mark", mark |-> mk]
          /\ IF mk.primary # <<>> /\ FindAnnotation(annotations, mk.primary) # <<>>
             THEN /\ hideTimeoutRef' = <<>>
                  /\ timers' = ClearedTimers
                  /\ hoveredAnnotation' = FindAnnotation(annotations, mk.primary)
             ELSE UNCHANGED <<hideTimeoutRef, timers, hoveredAnnotation>>
    /\ UNCHANGED <<resolverVars, pc, fn, textVars, htmlVars, pageVars>>

\* The pointer leaves the marker it is over: handleMouseOut, lines 91-96.
MouseOutMark ==
    /\ pc = "painted"
    /\ pointer.over = "mark"
    /\ pointer' = Away
    /\ ScheduleHide
    /\ UNCHANGED <<resolverVars, pc, fn, textVars, htmlVars, pageVars, hoveredAnnotation>>

\* The pointer comes over the tooltip, which is there while
\* hoveredAnnotation is set: onMouseEnter, line 195.
TooltipEnter ==
    /\ pc = "painted"
    /\ pointer.over = "away"
    /\ hoveredAnnotation # <<>>
    /\ pointer' = [over |-> "tooltip", mark |-> NoMark]
    /\ hideTimeoutRef' = <<>>
    /\ timers' = ClearedTimers
    /\ UNCHANGED <<resolverVars, pc, fn, textVars, htmlVars, pageVars, hoveredAnnotation>>

\* The pointer leaves the tooltip: onMouseLeave, line 196.
TooltipLeave ==
    /\ pc = "painted"
    /\ pointer.over = "tooltip"
    /\ pointer' = Away
    /\ ScheduleHide
    /\ UNCHANGED <<resolverVars, pc, fn, textVars, htmlVars, pageVars, hoveredAnnotation>>

\* A pending timeout fires: the callback of lines 65-67.  hideTimeoutRef
\* keeps the id of the timeout that has fired.
HideTimerFires ==
    /\ pc = "painted"
    /\ \E id \in timers : timers' = timers \ {id}
    /\ hoveredAnnotation' = <<>>
    /\ pointer' = IF pointer.over = "tooltip" THEN Away ELSE pointer
    /\ UNCHANGED <<resolverVars, pc, fn, textVars, htmlVars, pageVars, hideTimeoutRef>>

\* ------------------------------------------------------------- page
\* The ids the page and its requests in flight know of.
KnownIds ==
    {a.id : a \in Range(annotations)}
        \cup UNION {{a.id : a \in Range(r.captured) \cup Range(r.response)} : r \in requests}
        \cup {r.target : r \in requests}

\* The id the store gives a new row (a uuid): one that neither the store nor
\* any client holds.
PageNewId ==
    CHOOSE id \in 1..Len(Palette) : id \notin KnownIds \cup {row.id : row \in Range(store)}

\* A request of the page: what it asks for, the annotations array its
\* handler closed over when it was called, and how far it has come.
Request(kind, target, startOffset, endOffset, color) ==
    [id |-> Cardinality(requests) + 1, kind |-> kind, target |-> target,
     startOffset |-> startOffset, endOffset |-> endOffset, color |-> color,
     captured |-> annotations, phase |-> "sent", response |-> <<>>]

\* The request once its handler has returned.
Settled(r, phase) == [r EXCEPT !.phase = phase, !.captured = <<>>, !.response = <<>>]

\* The colors the sidebar offers for an annotation.
UpdateColors == {Palette[Len(Palette)]}

\* handleSaveAnnotation up to its await (ReaderPage lines 236-247): the
\* selection is sent to the server.
HandleSave ==
    /\ pc = "painted"
    /\ Cardinality(requests) < MaxRequests
    /\ \E startOffset \in 0..(PaintMaxOffset - 1) :
          requests' = requests \cup {Request("create", 0, startOffset, PaintMaxOffset, "")}
    /\ UNCHANGED <<resolverVars, pc, fn, textVars, htmlVars, store, hoverVars>>

\* handleUpdateAnnotation up to its await (line 265), for an annotation of
\* the sidebar.
HandleUpdate ==
    /\ pc = "painted"
    /\ Cardinality(requests) < MaxRequests
    /\ \E a \in Range(annotations), color \in UpdateColors :
          requests' = requests \cup {Request("update", a.id, 0, 0, color)}
    /\ UNCHANGED <<resolverVars, pc, fn, textVars, htmlVars, store, hoverVars>>

\* handleDeleteAnnotation up to its await (line 274), for an annotation of
\* the sidebar.
HandleDelete ==
    /\ pc = "painted"
    /\ Cardinality(requests) < MaxRequests
    /\ \E a \in Range(annotations) :
          requests' = requests \cup {Request("delete", a.id, 0, 0, "")}
    /\ UNCHANGED <<resolverVars, pc, fn, textVars, htmlVars, store, hoverVars>>

\* The row of the store with the id, <<>> when there is none.
FindRow(id) ==
    LET hits == SelectSeq(store, LAMBDA row : row.id = id)
    IN  IF Len(hits) = 0 THEN <<>> ELSE <<hits[1]>>

\* The server handles a request: createAnnotation (service lines 27-67),
\* updateAnnotation (lines 117-155), deleteAnnotation (lines 157-180).  An
\* update or a delete of a row that is not there is answered 404.
ServerHandles ==
    /\ \E r \in requests :
          /\ r.phase = "sent"
          /\ IF r.kind = "create"
             THEN LET row == SavedAnnotation(PageNewId, r.startOffset, r.endOffset, 1,
                                            SubSeq(content, r.startOffset + 1, r.endOffset))
                  IN  /\ store' = Append(store, row)
                      /\ requests' = (requests \ {r})
                             \cup {[r EXCEPT !.phase = "answered", !.response = <<row>>]}
             ELSE IF FindRow(r.target) = <<>>
             THEN /\ store' = store
                  /\ requests' = (requests \ {r}) \cup {[r EXCEPT !.phase = "rejected"]}
             ELSE IF r.kind = "update"
             THEN LET row == [FindRow(r.target)[1] EXCEPT !.color = r.color]
                  IN  /\ store' = [k \in 1..Len(store) |->
                                      IF store[k].id = r.target THEN row ELSE store[k]]
                      /\ requests' = (requests \ {r})
                             \cup {[r EXCEPT !.phase = "answered", !.response = <<row>>]}
             ELSE /\ store' = SelectSeq(store, LAMBDA row : row.id # r.target)
                  /\ requests' = (requests \ {r}) \cup {[r EXCEPT !.phase = "answered"]}
    /\ UNCHANGED <<resolverVars, pc, fn, textVars, htmlVars, hoverVars>>

\* The value the handler of an answered request gives setAnnotations, from
\* the array it closed over: lines 249, 266, 275.
NextAnnotations(r) ==
    IF r.kind = "create" THEN r.captured \o r.response
    ELSE IF r.kind = "update"
    THEN [k \in 1..Len(r.captured) |->
             IF r.captured[k].id = r.target THEN r.response[1] ELSE r.captured[k]]
    ELSE SelectSeq(r.captured, LAMBDA a : a.id # r.target)

\* The answer of a request arrives and its handler goes on after the await:
\* setAnnotations, and the content renders again.
ResponseArrives ==
    /\ pc = "painted"
    /\ \E r \in requests :
          /\ r.phase = "answered"
          /\ annotations' = NextAnnotations(r)
          /\ requests' = (requests \ {r}) \cup {Settled(r, "applied")}
    /\ Rerender
    /\ UNCHANGED <<store, hoveredAnnotation, pointer>>

\* The answer is an error: the catch of lines 253, 267, 276 logs it.
ErrorArrives ==
    /\ pc = "painted"
    /\ \E r \in requests :
          /\ r.phase = "rejected"
          /\ requests' = (requests \ {r}) \cup {Settled(r, "caught")}
    /\ UNCHANGED <<resolverVars, pc, fn, textVars, htmlVars, store, hoverVars>>

\* ------------------------------------------------------------- server
\* A field of a request body: <<>> when the body has no such field, <<v>>
\* for the value v.  The book open in the reader is book 1; no book has
\* id 2; a bookId of 0 is falsy.
TheBook == 1

ApiOffsets == (0 - 1)..ApiMaxOffset

CreateBodies ==
    [bookId : {0, TheBook, 2},
     selectedText : {<<>>, <<"a">>},
     startOffset : {<<>>} \cup {<<n>> : n \in ApiOffsets},
     endOffset : {<<>>} \cup {<<n>> : n \in ApiOffsets}]

\* Controller lines 12-14: the test for the required fields.
MissingRequired(data) ==
    \/ data.bookId = 0
    \/ data.selectedText = <<>>
    \/ data.startOffset = <<>>
    \/ data.endOffset = <<>>

\* Controller lines 6-22 and service lines 27-36: the status of the
\* response to a create request.
CreateStatus(data) ==
    IF MissingRequired(data) THEN 400
    ELSE IF data.bookId # TheBook THEN 404
    ELSE 201

\* An id that no row and no annotation of the page has.
NewId(rows, anns) ==
    CHOOSE id \in 1..(Len(rows) + Len(anns) + 1) :
        /\ \A k \in 1..Len(rows) : rows[k].id # id
        /\ \A k \in 1..Len(anns) : anns[k].id # id

\* POST /annotations from any client of the API: controller lines 6-22,
\* service lines 27-59.  A rejected request stores nothing.
ApiCreate ==
    /\ pc \in {"call", "resolved"}
    /\ Len(store) < MaxAnns
    /\ \E data \in CreateBodies :
          IF CreateStatus(data) = 201
          THEN store' = Append(store,
                   SavedAnnotation(NewId(store, annotations), data.startOffset[1],
                                   data.endOffset[1], 1, data.selectedText))
          ELSE store' = store
    /\ UNCHANGED <<resolverVars, pc, fn, textVars, htmlVars, requests, hoverVars>>

\* The orders in which findMany with orderBy startOffset asc can return the
\* rows (service lines 71-82): rows of the same startOffset in any order.
RowsByStart(rows) ==
    {[k \in 1..Len(rows) |-> rows[p[k]]] : p \in
        {q \in Permutations(1..Len(rows)) :
            \A i, j \in 1..Len(rows) :
                i < j => rows[q[i]].startOffset <= rows[q[j]].startOffset}}

\* ReaderPage lines 108-121, with the book open and the user signed in: the
\* annotations of the book are fetched and set, and the content renders
\* again.
LoadAnnotations ==
    /\ pc \in {"call", "resolved"}
    /\ annotations' \in RowsByStart(store)
    /\ Rerender
    /\ UNCHANGED <<pageVars, hoveredAnnotation, pointer>>

\* ------------------------------------------------------------- specifications
ValidTriples(maxOff, maxTime) == {at \in ValidAttrs(maxOff, maxTime) : at[1] < at[2]}

\* The lists handed to a painter: valid annotations created at one instant.
\* A painter reads no createdAt; it copies the color the resolver chose.
PaintLists == AnnotationLists(MaxAnns, ValidTriples(PaintMaxOffset, 1))

HtmlLists == AnnotationLists(MaxAnns, ValidTriples(HtmlMaxOffset, 1))

NoText ==
    /\ content = <<>>
    /\ result = <<>>

NoHtml ==
    /\ parsed = EmptyDocument
    /\ dom = EmptyDocument
    /\ textNodes = <<>>
    /\ sortedRanges = <<>>
    /\ rangeIdx = 0

\* No request of the page in flight, no row stored.
NoPage ==
    /\ store = <<>>
    /\ requests = {}

\* No tooltip shown, no timeout pending, the pointer over neither a marker
\* nor the tooltip.
NoHover ==
    /\ hoveredAnnotation = <<>>
    /\ hideTimeoutRef = <<>>
    /\ timers = {}
    /\ pointer = Away

NoPainter == NoText /\ NoHtml /\ NoPage /\ NoHover

\* The resolver called on a list of valid annotations.
Init ==
    /\ annotations \in AnnotationLists(MaxAnns, ValidTriples(MaxOffset, MaxTime))
    /\ fn = "resolve"
    /\ ResolverInit
    /\ NoPainter

Next == ResolveCall \/ SweepEvent \/ ResolveReturn

Spec == Init /\ [][Next]_vars

\* The resolver called on any list, annotations with startOffset >= endOffset
\* included (neither the create schema nor the resolver rejects them).
InitAny ==
    /\ annotations \in AnnotationLists(MaxAnns, ValidAttrs(AnyMaxOffset, AnyMaxTime))
    /\ fn = "resolve"
    /\ ResolverInit
    /\ NoPainter

SpecAny == InitAny /\ [][Next]_vars

\* applyHighlightsToText called on a list of valid annotations and a content
\* string, beyond which the offsets may lie.
InitText ==
    /\ annotations \in PaintLists
    /\ fn = "text"
    /\ ResolverInit
    /\ NoPainter

NextText == ResolveCall \/ SweepEvent \/ ResolveReturn \/ PaintTextEmpty \/ PaintText

SpecText == InitText /\ [][NextText]_vars

\* applyHighlightsToHtml called on a list of valid annotations and markup,
\* beyond whose flattened text the offsets may lie.
InitHtml ==
    /\ annotations \in HtmlLists
    /\ fn = "html"
    /\ ResolverInit
    /\ NoPainter

NextHtml ==
    ResolveCall \/ SweepEvent \/ ResolveReturn \/ PaintHtmlEmpty \/ PaintHtmlBegin \/ WrapRange

SpecHtml == InitHtml /\ [][NextHtml]_vars

\* Either painter called on a list of valid annotations.
InitPaint == InitText \/ InitHtml

NextPaint == NextText \/ NextHtml

SpecPaint == InitPaint /\ [][NextPaint]_vars

\* The reader with a book open and no annotation loaded: each render paints
\* the content, each selection saved or annotation deleted renders again.
InitReader ==
    /\ annotations = <<>>
    /\ ResolverInit
    /\ NoPage
    /\ NoHover
    /\ textNodes = <<>>
    /\ sortedRanges = <<>>
    /\ rangeIdx = 0
    /\ result = <<>>
    /\ \/ /\ fn = "text"
          /\ content \in ReaderContents
          /\ parsed = EmptyDocument
       \/ /\ fn = "html"
          /\ content = <<>>
          /\ parsed \in Documents
    /\ dom = parsed

NextReader ==
    \/ ReaderRenderEmpty
    \/ ResolveCall
    \/ SweepEvent
    \/ ResolveReturn
    \/ ReaderPaintText
    \/ ReaderPaintHtml
    \/ WrapRange
    \/ CreateAnnotation
    \/ DeleteAnnotation

SpecReader == InitReader /\ [][NextReader]_vars

\* The API with the reader page of one book: create requests of any body,
\* and the page loading the book's annotations and handing them to the
\* resolver.
InitApi ==
    /\ annotations = <<>>
    /\ fn = "resolve"
    /\ ResolverInit
    /\ NoPainter

NextApi == ApiCreate \/ LoadAnnotations \/ ResolveCall \/ SweepEvent \/ ResolveReturn

SpecApi == InitApi /\ [][NextApi]_vars

\* The caller takes the value returned.  No function of highlightContent.ts
\* has a variable outside its body: the locals of the call are gone.
TakeResult ==
    /\ pc = "painted" \/ (pc = "resolved" /\ fn = "resolve")
    /\ pc' = "returned"
    /\ annotations' = <<>>
    /\ events' = <<>>
    /\ eventIdx' = 0
    /\ activeAnnotations' = <<>>
    /\ lastOffset' = 0
    /\ ranges' = <<>>
    /\ content' = <<>>
    /\ result' = <<>>
    /\ parsed' = EmptyDocument
    /\ dom' = EmptyDocument
    /\ textNodes' = <<>>
    /\ sortedRanges' = <<>>
    /\ rangeIdx' = 0
    /\ UNCHANGED <<fn, pageVars, hoverVars>>

\* The caller calls the resolver or a painter again, on any list.
NextCall ==
    /\ pc = "returned"
    /\ annotations' \in PaintLists
    /\ fn' \in {"resolve", "text", "html"}
    /\ pc' = "call"
    /\ UNCHANGED <<events, eventIdx, activeAnnotations, lastOffset, ranges, textVars,
                   htmlVars, pageVars, hoverVars>>

InitCalls ==
    /\ annotations \in PaintLists
    /\ fn \in {"resolve", "text", "html"}
    /\ ResolverInit
    /\ NoPainter

NextCalls == NextPaint \/ TakeResult \/ NextCall

SpecCalls == InitCalls /\ [][NextCalls]_vars

\* The resolver called on a list of up to three valid annotations created
\* at one instant.
InitOrder ==
    /\ annotations \in AnnotationLists(OrderMaxAnns, ValidTriples(OrderMaxOffset, 1))
    /\ fn = "resolve"
    /\ ResolverInit
    /\ NoPainter

SpecOrder == InitOrder /\ [][Next]_vars

\* The content of the book open in the reader with its markers hovered.
HoverContents == {[k \in 1..PaintMaxOffset |-> "a"]}

\* The annotations of the book as loaded: valid, created at different
\* instants.
HoverLists ==
    {[k \in DOMAIN anns |->
         SavedAnnotation(anns[k].id, anns[k].startOffset, anns[k].endOffset,
                         anns[k].createdAt, <<"a">>)] :
        anns \in AnnotationLists(MaxAnns, ValidTriples(PaintMaxOffset, MaxTime))}

\* The reader with a plain-text book open and its annotations loaded: each
\* render paints the content, the pointer moves over the markers and the
\* tooltip, annotations are created and deleted.
InitHover ==
    /\ annotations \in HoverLists
    /\ store = annotations
    /\ requests = {}
    /\ ResolverInit
    /\ NoHover
    /\ NoHtml
    /\ fn = "text"
    /\ content \in HoverContents
    /\ result = <<>>

NextHover ==
    \/ ReaderRenderEmpty
    \/ ResolveCall
    \/ SweepEvent
    \/ ResolveReturn
    \/ ReaderPaintText
    \/ CreateAnnotation
    \/ DeleteAnnotation
    \/ MouseOverMark
    \/ MouseOutMark
    \/ TooltipEnter
    \/ TooltipLeave
    \/ HideTimerFires

SpecHover == InitHover /\ [][NextHover]_vars

\* A render that has begun runs to its end.
RenderStep ==
    \/ ReaderRenderEmpty
    \/ ResolveCall
    \/ SweepEvent
    \/ ResolveReturn
    \/ ReaderPaintText

\* The browser runs the callback of a timeout that stays pending, and React
\* finishes the render it has begun; the user's moves and clicks are under
\* no obligation.
SpecHoverFair == SpecHover /\ WF_vars(HideTimerFires) /\ WF_vars(RenderStep)

\* The annotations of the book when the page has loaded them.
PageLists ==
    {[k \in DOMAIN anns |->
         SavedAnnotation(anns[k].id, anns[k].startOffset, anns[k].endOffset,
                         anns[k].createdAt, <<"a">>)] :
        anns \in AnnotationLists(1, ValidTriples(1, 1))}

\* The reader page with a plain-text book open and its annotations loaded:
\* the user saves, recolors and deletes annotations without waiting for the
\* answers, and each new annotations array is painted.
InitPage ==
    /\ annotations \in PageLists
    /\ store = annotations
    /\ requests = {}
    /\ ResolverInit
    /\ NoHover
    /\ NoHtml
    /\ fn = "text"
    /\ content \in HoverContents
    /\ result = <<>>

NextPage ==
    \/ RenderStep
    \/ HandleSave
    \/ HandleUpdate
    \/ HandleDelete
    \/ ServerHandles
    \/ ResponseArrives
    \/ ErrorArrives

SpecPage == InitPage /\ [][NextPage]_vars

\* ------------------------------------------------------------- claims
\* The whole loop of lines 35-53 as one value: the ranges returned for the
\* sorted events evs, from iteration k on.
RECURSIVE SweepFrom(_, _, _, _, _)
SweepFrom(evs, k, active, last, rs) ==
    IF k > Len(evs) THEN rs
    ELSE SweepFrom(evs, k + 1, ApplyEvent(active, evs[k]),
                   AdvanceOffset(last, evs[k]), EmitRange(rs, active, last, evs[k]))

\* Every value resolveOverlappingAnnotations(anns) can return.
ResolveOutcomes(anns) ==
    IF Len(anns) = 0 THEN {<<>>}
    ELSE {SweepFrom(evs, 1, <<>>, 0, <<>>) : evs \in SortOutcomes(BuildEvents(anns))}

\* The lists that hold the same annotations as anns in another order.
Reorderings(anns) ==
    {[k \in 1..Len(anns) |-> anns[p[k]]] : p \in Permutations(1..Len(anns))}

Resolved == pc = "resolved"

AllValid == \A k \in 1..Len(annotations) : IsValidAnnotation(annotations[k])

InSomeRange(k) == \E r \in 1..Len(ranges) : ranges[r].start <= k /\ k < ranges[r].end

InSomeAnnotation(k) ==
    \E a \in 1..Len(annotations) :
        annotations[a].startOffset <= k /\ k < annotations[a].endOffset

\* The input annotations whose range covers the span r.
Covering(r) ==
    {a \in Range(annotations) : a.startOffset <= r.start /\ r.end <= a.endOffset}

\* The annotations of S with the latest createdAt.
Latest(S) == {a \in S : \A b \in S : b.createdAt <= a.createdAt}

\* C1 (coverage): once the resolver has returned, an offset lies inside some
\* returned span exactly when it lies inside some input annotation, and the
\* empty list returns the empty span list.
C1_Coverage ==
    Resolved =>
        /\ \A k \in (0 - 1)..(MaxOffset + 1) : InSomeRange(k) <=> InSomeAnnotation(k)
        /\ (Len(annotations) = 0 => ranges = <<>>)

\* Two overlapping annotations, offset 0 outside both, and two spans or more
\* returned.
C1_Witness ==
    /\ Resolved
    /\ Len(annotations) = 2
    /\ ~InSomeAnnotation(0)
    /\ Len(ranges) >= 2
    /\ \E a, b \in Range(annotations) :
          a.id # b.id /\ a.startOffset < b.endOffset /\ b.startOffset < a.endOffset

\* C2 (no overlap): at every point of the sweep and at its end, the spans are
\* in ascending order of start and each ends no later than the next starts.
C2_NoOverlap ==
    \A r \in 1..(Len(ranges) - 1) :
        /\ ranges[r].start < ranges[r + 1].start
        /\ ranges[r].end <= ranges[r + 1].start

\* Two annotations, one of them with startOffset >= endOffset, and at least
\* two spans returned.
C2_Witness ==
    /\ Resolved
    /\ Len(ranges) >= 2
    /\ ~AllValid

\* C3 (attribution): every returned span lists exactly the ids of the input
\* annotations that cover it, each once.
C3_Attribution ==
    Resolved =>
        \A r \in 1..Len(ranges) :
            /\ Range(ranges[r].annotationIds) = {a.id : a \in Covering(ranges[r])}
            /\ Cardinality(Range(ranges[r].annotationIds)) = Len(ranges[r].annotationIds)

\* The shape of example 1: a span of one annotation, then a span of two, then
\* a span of the other one.
C3_Witness ==
    /\ Resolved
    /\ \E r \in 1..(Len(ranges) - 2) :
          /\ Len(ranges[r].annotationIds) = 1
          /\ Len(ranges[r + 1].annotationIds) = 2
          /\ Len(ranges[r + 2].annotationIds) = 1
          /\ ranges[r].annotationIds # ranges[r + 2].annotationIds

\* C4 (latest wins): a span covered by several annotations of which exactly
\* one has the latest createdAt has that annotation's color.
C4_LatestWins ==
    Resolved =>
        \A r \in 1..Len(ranges) :
            LET act == Covering(ranges[r]) IN
            (Cardinality(act) >= 2 /\ Cardinality(Latest(act)) = 1) =>
                \A a \in Latest(act) : ranges[r].color = a.color

\* A span of two annotations whose single latest one is the first id the
\* span lists: the later-activated one does not win.
C4_Witness ==
    /\ Resolved
    /\ \E r \in 1..Len(ranges) :
          LET act == Covering(ranges[r]) IN
          /\ Cardinality(act) = 2
          /\ Cardinality(Latest(act)) = 1
          /\ \A a \in Latest(act) :
                a.id = ranges[r].annotationIds[1] /\ ranges[r].color = a.color

\* C5 (determinism under reordering): the returned spans are the only value
\* the resolver can return for any reordering of the same list.
C5_ReorderDeterminism ==
    Resolved =>
        \A P \in Reorderings(annotations) : ResolveOutcomes(P) = {ranges}

\* C6 (invalid range rejection): the resolver never returns a span list for
\* a list that holds an annotation with startOffset >= endOffset.
C6_InvalidRejected == ~AllValid => ~Resolved

\* C7 (tie on createdAt): a span on which several covering annotations share
\* the latest createdAt has the color of the one of them with the greatest id.
C7_TieById ==
    Resolved =>
        \A r \in 1..Len(ranges) :
            LET top == Latest(Covering(ranges[r])) IN
            Cardinality(top) >= 2 =>
                \A a \in top : (\A b \in top : b.id <= a.id) => ranges[r].color = a.color

\* What an HTML parser reads back from a painted string: the tags removed
\* (from "<" to the next ">") ...
RECURSIVE StripTags(_, _)
StripTags(text, inTag) ==
    IF text = <<>> THEN <<>>
    ELSE IF inTag THEN StripTags(Tail(text), Head(text) # ">")
    ELSE IF Head(text) = "<" THEN StripTags(Tail(text), TRUE)
    ELSE <<Head(text)>> \o StripTags(Tail(text), FALSE)

\* ... and the character references decoded, left to right.
RECURSIVE Unescape(_)
Unescape(text) ==
    IF text = <<>> THEN <<>>
    ELSE IF \E e \in Entities : IsPrefix(e[1], text)
    THEN LET e == CHOOSE x \in Entities : IsPrefix(x[1], text)
         IN  <<e[2]>> \o Unescape(SubSeq(text, Len(e[1]) + 1, Len(text)))
    ELSE <<Head(text)>> \o Unescape(Tail(text))

Painted == pc = "painted"

OffsetsWithin(n) == \A k \in 1..Len(annotations) : annotations[k].endOffset <= n

\* C8 (plain-text preservation): for valid annotations whose offsets lie
\* within the content, the output of applyHighlightsToText with the marker
\* tags removed and the escaping undone is the content.
C8_TextPreserved ==
    (Painted /\ fn = "text" /\ OffsetsWithin(Len(content))) =>
        Unescape(StripTags(result, FALSE)) = content

\* Two overlapping annotations inside a content that holds & and <, painted
\* with two markers.
C8_Witness ==
    /\ Painted
    /\ fn = "text"
    /\ OffsetsWithin(Len(content))
    /\ Len(ranges) = 2
    /\ Len(content) = 2
    /\ "&" \in Range(content)
    /\ "<" \in Range(content)

\* The flattened visible text of a tree: its text leaves in document order.
RECURSIVE ConcatData(_, _, _)
ConcatData(d, leaves, k) ==
    IF k > Len(leaves) THEN <<>>
    ELSE d[leaves[k]].data \o ConcatData(d, leaves, k + 1)

FlatText(d) == ConcatData(d, TextLeaves(d, Root), 1)

\* Adjacent text pieces joined.
RECURSIVE JoinText(_)
JoinText(items) ==
    IF Len(items) < 2 THEN items
    ELSE IF items[1].kind = "text" /\ items[2].kind = "text"
         THEN JoinText(<<[items[1] EXCEPT !.data = @ \o items[2].data]>>
                       \o SubSeq(items, 3, Len(items)))
         ELSE <<items[1]>> \o JoinText(Tail(items))

\* The tree under n with every marker replaced by its children and adjacent
\* text pieces joined, as a nested value.
RECURSIVE Unmarked(_, _)
RECURSIVE UnmarkedKids(_, _, _)
Unmarked(d, n) ==
    IF d[n].kind = "text"
    THEN [kind |-> "text", tag |-> "#text", attrs |-> <<>>, data |-> d[n].data, kids |-> <<>>]
    ELSE [kind |-> "element", tag |-> d[n].tag, attrs |-> d[n].attrs, data |-> <<>>,
          kids |-> JoinText(UnmarkedKids(d, d[n].children, 1))]

UnmarkedKids(d, kids, k) ==
    IF k > Len(kids) THEN <<>>
    ELSE (IF IsMarker(d, kids[k]) THEN UnmarkedKids(d, d[kids[k]].children, 1)
          ELSE <<Unmarked(d, kids[k])>>)
         \o UnmarkedKids(d, kids, k + 1)

\* C9 (markup text preservation): the flattened text of the tree that
\* applyHighlightsToHtml leaves is the flattened text of the parsed input.
C9_MarkupTextPreserved ==
    (Painted /\ fn = "html") => FlatText(dom) = FlatText(parsed)

\* A span painted with more markers than spans (it crosses a leaf boundary),
\* one marker inside the b element.
C9_Witness ==
    /\ Painted
    /\ fn = "html"
    /\ Len(ranges) >= 1
    /\ Cardinality(Markers(dom)) > Len(ranges)
    /\ \E m \in Markers(dom) : dom[dom[m].parent].tag = "b"

\* C10 (markup structure preservation): every marker of the output tree has
\* one child, a text node, and the output tree with its markers replaced by
\* their children and adjacent text joined is the parsed input tree.
C10_MarkupStructurePreserved ==
    (Painted /\ fn = "html") =>
        /\ \A m \in Markers(dom) :
              Len(dom[m].children) = 1 /\ dom[dom[m].children[1]].kind = "text"
        /\ Unmarked(dom, Root) = Unmarked(parsed, Root)

\* A marker cut from the middle of a leaf: text before and after it under
\* the same parent.
C10_Witness ==
    /\ Painted
    /\ fn = "html"
    /\ \E m \in Markers(dom) :
          LET sibs == dom[dom[m].parent].children
              k == IndexOf(sibs, m)
          IN  /\ 1 < k
              /\ k < Len(sibs)
              /\ dom[sibs[k - 1]].kind = "text"
              /\ dom[sibs[k + 1]].kind = "text"

\* The text leaves of the parsed tree with their offsets, as the painter
\* maps them.
ParsedLeaves == buildTextNodeMap(parsed, Root)

\* The characters of the text under the marker m.
MarkerChars(d, m) == Range(ConcatData(d, TextLeaves(d, m), 1))

\* The attributes a marker of the span r carries.
MarkAttrs(r) ==
    <<FirstId(r.annotationIds), JoinIds(r.annotationIds), <<r.color, AlphaSuffix>>>>

\* The characters of the leaf info that the span r covers.
Covered(info, r) ==
    Max2(info.startOffset, r.start)..(Min2(info.endOffset, r.end) - 1)

\* C11 (span crossing leaves): once the markup is painted, every span has,
\* for each text leaf it intersects, exactly one marker under that leaf's
\* parent that holds exactly the covered characters of the leaf and carries
\* the span's ids and color, and the markers that hold characters of the
\* span are as many as the leaves it intersects.
C11_MarkerPerLeaf ==
    (Painted /\ fn = "html") =>
        LET leaves == ParsedLeaves
            chars == [m \in Markers(dom) |-> MarkerChars(dom, m)]
        IN  \A k \in 1..Len(ranges) :
                LET r == ranges[k]
                    hit == {i \in 1..Len(leaves) : Covered(leaves[i], r) # {}}
                    of == {m \in DOMAIN chars : chars[m] \cap (r.start..(r.end - 1)) # {}}
                IN  /\ Cardinality(of) = Cardinality(hit)
                    /\ \A i \in hit :
                          \E m \in of :
                              /\ dom[m].parent = parsed[leaves[i].node].parent
                              /\ chars[m] = Covered(leaves[i], r)
                              /\ dom[m].attrs = MarkAttrs(r)

\* A span painted over two leaves of different parents, one of them cut.
C11_Witness ==
    /\ Painted
    /\ fn = "html"
    /\ \E k \in 1..Len(ranges) :
          \E i, j \in 1..Len(ParsedLeaves) :
              /\ Covered(ParsedLeaves[i], ranges[k]) # {}
              /\ Covered(ParsedLeaves[j], ranges[k]) # {}
              /\ parsed[ParsedLeaves[i].node].parent # parsed[ParsedLeaves[j].node].parent
              /\ Cardinality(Covered(ParsedLeaves[j], ranges[k])) <
                     Len(parsed[ParsedLeaves[j].node].data)

\* C12 (markup marker placement): once the markup is painted, the visible
\* character at flattened offset k of the output is inside a marker exactly
\* when some span has start <= k < end, and every marker around it carries
\* the ids and the color of every span that holds k.
C12_MarkupPlacement ==
    (Painted /\ fn = "html") =>
        LET flat == FlatText(dom)
            chars == [m \in Markers(dom) |-> MarkerChars(dom, m)]
        IN  \A j \in 1..Len(flat) :
                LET around == {m \in DOMAIN chars : flat[j] \in chars[m]}
                IN  /\ (around # {}) <=> InSomeRange(j - 1)
                    /\ \A m \in around :
                          \A k \in 1..Len(ranges) :
                              (ranges[k].start <= j - 1 /\ j - 1 < ranges[k].end) =>
                                  dom[m].attrs = MarkAttrs(ranges[k])

\* Two separated spans inside one text leaf of the parsed tree, each with
\* its marker, and an unmarked character between them.
C12_Witness ==
    /\ Painted
    /\ fn = "html"
    /\ \E i \in 1..Len(ParsedLeaves) :
          \E a, b \in 1..Len(ranges) :
              /\ ranges[a].end < ranges[b].start
              /\ ParsedLeaves[i].startOffset <= ranges[a].start
              /\ ranges[b].end <= ParsedLeaves[i].endOffset
              /\ \E m, n \in Markers(dom) :
                    /\ MarkerChars(dom, m) = ranges[a].start..(ranges[a].end - 1)
                    /\ MarkerChars(dom, n) = ranges[b].start..(ranges[b].end - 1)

\* The tag of the mark of span r, split at its quotes.
MarkTag(r) ==
    <<(<<"mark data-annotation-id=">>), (<<ToString(r.annotationIds[1])>>),
      (<<" data-annotation-ids=">>), JoinIds(r.annotationIds),
      (<<" style=">>), (<<"background-color: ", r.color, "66", ";">>), (<<>>)>>

\* C13 (plain-text marker placement): in the output of applyHighlightsToText
\* each span that lies within the content has exactly one mark starting at
\* its offset, which wraps content[start..end) and carries the first id, all
\* the ids and the color with the suffix 66; every marked character lies in
\* a span; the marks come in ascending order of offset.
C13_TextPlacement ==
    (Painted /\ fn = "text") =>
        LET marks == TextMarks
        IN  /\ \A k \in 1..Len(ranges) :
                  ranges[k].end <= Len(content) =>
                      /\ Cardinality({i \in 1..Len(marks) :
                                         marks[i].start = ranges[k].start}) = 1
                      /\ \A i \in 1..Len(marks) :
                            marks[i].start = ranges[k].start =>
                                /\ marks[i].text =
                                       Slice(content, ranges[k].start, ranges[k].end)
                                /\ marks[i].attrs = MarkTag(ranges[k])
            /\ \A i \in 1..Len(marks) :
                  \A j \in 1..Len(marks[i].text) : InSomeRange(marks[i].start + j - 1)
            /\ \A i \in 1..(Len(marks) - 1) :
                  marks[i].start + Len(marks[i].text) <= marks[i + 1].start

\* An unmarked character, then a mark of two contributing ids around a
\* special character.
C13_Witness ==
    /\ Painted
    /\ fn = "text"
    /\ OffsetsWithin(Len(content))
    /\ \E k \in 1..Len(ranges) :
          /\ ranges[k].start > 0
          /\ ~InSomeRange(0)
          /\ Len(ranges[k].annotationIds) = 2
          /\ content[ranges[k].start + 1] \in {"&", "<", ">", "\"", "'"}
          /\ \E i \in 1..Len(TextMarks) : TextMarks[i].start = ranges[k].start

\* The string with the injected marks removed: each opening tag that
\* createMarkOpen writes, up to its ">", and each closing tag.
RECURSIVE WithoutMarks(_, _)
WithoutMarks(text, inMark) ==
    IF text = <<>> THEN <<>>
    ELSE IF inMark THEN WithoutMarks(Tail(text), Head(text) # ">")
    ELSE IF IsPrefix(<<"<", "mark data-annotation-id=">>, text) \/ IsPrefix(createMarkClose, text)
    THEN WithoutMarks(Tail(text), TRUE)
    ELSE <<Head(text)>> \o WithoutMarks(Tail(text), FALSE)

\* C14 (escaping of plain text): the string the reader sets as markup of the
\* reading surface for text content holds, outside the injected marks, no
\* < > " or ' and no & that does not begin one of the five character
\* references, and decodes to the content; with the empty annotation list
\* too.
C14_TextEscaped ==
    (Painted /\ fn = "text") =>
        LET raw == WithoutMarks(result, FALSE)
        IN  /\ \A k \in 1..Len(raw) :
                  /\ raw[k] \notin {"<", ">", "\"", "'"}
                  /\ raw[k] = "&" =>
                        \E e \in Entities : IsPrefix(e[1], SubSeq(raw, k, Len(raw)))
            /\ Unescape(raw) = content

\* C15 (no zero-length span, no false overlap at a shared boundary): the
\* sorted events hold every end event of an offset before every start event
\* of that offset; every span has start < end; and when one annotation ends
\* where another starts, no span lists both, a span of the first ends at
\* that offset and a span of the second starts there.
C15_SharedBoundary ==
    /\ \A i, j \in 1..Len(events) :
          (i < j /\ events[i].offset = events[j].offset) =>
              ~(events[i].type = "start" /\ events[j].type = "end")
    /\ \A r \in 1..Len(ranges) : ranges[r].start < ranges[r].end
    /\ Resolved =>
          \A a, b \in Range(annotations) :
              a.endOffset = b.startOffset =>
                  /\ ~\E r \in 1..Len(ranges) :
                        {a.id, b.id} \subseteq Range(ranges[r].annotationIds)
                  /\ \E r \in 1..Len(ranges) :
                        ranges[r].end = a.endOffset /\ a.id \in Range(ranges[r].annotationIds)
                  /\ \E r \in 1..Len(ranges) :
                        ranges[r].start = b.startOffset /\ b.id \in Range(ranges[r].annotationIds)

\* Example 2: two annotations, the second starting where the first ends,
\* resolved into exactly two spans.
C15_Witness ==
    /\ Resolved
    /\ Len(annotations) = 2
    /\ annotations[1].endOffset = annotations[2].startOffset
    /\ Len(ranges) = 2
    /\ ranges[1].end = ranges[2].start

\* The startOffset and endOffset values of the input annotations.
Boundaries == {a.startOffset : a \in Range(annotations)} \cup
              {a.endOffset : a \in Range(annotations)}

\* C16 (span boundaries are annotation boundaries): each returned span
\* starts and ends at a startOffset or endOffset of the input, none of these
\* lies strictly inside a span, and two spans that touch list different
\* sets of annotation ids.
C16_SpanBoundaries ==
    Resolved =>
        /\ \A r \in 1..Len(ranges) :
              /\ ranges[r].start \in Boundaries
              /\ ranges[r].end \in Boundaries
              /\ \A b \in Boundaries : ~(ranges[r].start < b /\ b < ranges[r].end)
        /\ \A r \in 1..(Len(ranges) - 1) :
              ranges[r].end = ranges[r + 1].start =>
                  Range(ranges[r].annotationIds) # Range(ranges[r + 1].annotationIds)

\* Two touching spans of the same color, cut at an annotation boundary that
\* lies inside the annotation both have the color of.
C16_Witness ==
    /\ Resolved
    /\ \E r \in 1..(Len(ranges) - 1) :
          /\ ranges[r].end = ranges[r + 1].start
          /\ ranges[r].color = ranges[r + 1].color

\* C17 (stale offsets): the plain-text painter emits one mark for each span
\* that starts inside the content and none for a span that lies wholly
\* beyond it; the mark of a span that reaches beyond the end wraps the part
\* of the span inside the content; the visible text is the content.
C17_StaleOffsets ==
    (Painted /\ fn = "text") =>
        /\ Len(TextMarks) =
              Cardinality({k \in 1..Len(ranges) : ranges[k].start < Len(content)})
        /\ \A k \in 1..Len(ranges) :
              ranges[k].start < Len(content) =>
                  \E i \in 1..Len(TextMarks) :
                      /\ TextMarks[i].start = ranges[k].start
                      /\ TextMarks[i].text =
                             SubSeq(content, ranges[k].start + 1,
                                    Min2(ranges[k].end, Len(content)))
        /\ Unescape(StripTags(result, FALSE)) = content

MarkerIdentities ==
    IF fn = "text"
    THEN LET marks == TextMarks
         IN  {<<marks[i].attrs[2], marks[i].attrs[4]>> : i \in 1..Len(marks)}
    ELSE {<<(<<dom[m].attrs[1]>>), dom[m].attrs[2]>> : m \in Markers(dom)}

\* The ids of a comma-separated list.
IdsOf(joined) == {joined[k] : k \in {j \in 1..Len(joined) : joined[j] # ","}}

\* C19 (marker identity): every marker either painter emits has a non-empty
\* list of contributing ids, its primary id is one of them, and each of them
\* is the id of an annotation of the painted list, so the lookup of the
\* primary id in that list finds an annotation.
C19_MarkerIdentity ==
    Painted =>
        \A mk \in MarkerIdentities :
            /\ IdsOf(mk[2]) # {}
            /\ Len(mk[1]) = 1
            /\ mk[1][1] \in IdsOf(mk[2])
            /\ IdsOf(mk[2]) \subseteq {ToString(a.id) : a \in Range(annotations)}
            /\ \E k \in 1..Len(annotations) : ToString(annotations[k].id) = mk[1][1]

\* A painted output with a marker of one contributing id and a marker of
\* two.
C19_Witness ==
    /\ Painted
    /\ \E mk \in MarkerIdentities : Cardinality(IdsOf(mk[2])) = 1
    /\ \E mk \in MarkerIdentities : Cardinality(IdsOf(mk[2])) = 2

\* The flattened stream of the unpainted content: the content for format
\* text, the text leaves of the parsed markup for format html.
FlatContent == IF fn = "text" THEN content ELSE FlatText(parsed)

\* C20 (stable offsets across re-renders): after every render of the reader,
\* whatever annotations were created and deleted before it, the offset that
\* calculateOffset gives for a character of a text node of the output is the
\* offset of that character in the flattened stream of the unpainted
\* content.
C20_StableOffsets ==
    Painted =>
        \A i \in 1..Len(RenderedTextNodes) :
            \A o \in 0..(Len(RenderedTextNodes[i]) - 1) :
                LET k == calculateOffset(RenderedTextNodes, i, o)
                IN  /\ k < Len(FlatContent)
                    /\ FlatContent[k + 1] = RenderedTextNodes[i][o + 1]

\* C21 (range invariant on creation): every row the create path has stored,
\* and every annotation the page hands to the resolver, has
\* 0 <= startOffset < endOffset.
C21_RangeOnCreation ==
    /\ \A k \in 1..Len(store) : IsValidAnnotation(store[k])
    /\ \A k \in 1..Len(annotations) : IsValidAnnotation(annotations[k])

\* C22 (selectedText integrity at creation): every annotation created from a
\* selection in the reader has as selectedText the flattened content from
\* its startOffset to its endOffset.
C22_SelectedTextIntegrity ==
    \A k \in 1..Len(annotations) :
        annotations[k].selectedText =
            Slice(FlatContent, annotations[k].startOffset, annotations[k].endOffset)

\* The string applyHighlightsToText returns for the content c and the spans
\* rs of its list.
TextPaintOf(c, rs) == IF Len(rs) = 0 THEN escapeHtml(c) ELSE TextLoop(c, rs, 1, <<>>, 0)

\* The loop of lines 254-256 as one value.
RECURSIVE WrapAll(_, _, _, _)
WrapAll(d, map, sorted, k) ==
    IF k > Len(sorted) THEN d
    ELSE WrapAll(wrapRangeInMark(d, map, sorted[k]), map, sorted, k + 1)

\* The tree applyHighlightsToHtml leaves of the parsed markup d for the
\* spans rs of its list.
HtmlPaintOf(d, rs) ==
    IF ReturnsMarkup(d, rs) THEN d
    ELSE WrapAll(d, buildTextNodeMap(d, Root), SortByStartDesc(rs), 1)

\* What a call has returned is a value its arguments alone give: the spans
\* are spans the resolver can return for the list, and the painted output
\* is the paint of the content or the parsed markup with them.
ResultOfArguments ==
    /\ (Resolved \/ Painted) => ranges \in ResolveOutcomes(annotations)
    /\ (Painted /\ fn = "text") => result = TextPaintOf(content, ranges)
    /\ (Painted /\ fn = "html") => dom = HtmlPaintOf(parsed, ranges)

\* A step of a call leaves the list (its length, its order, the fields of
\* each annotation), the content once read and the parsed markup as they
\* are.
ArgumentsKept ==
    pc' \notin {"call", "returned"} =>
        /\ annotations' = annotations
        /\ pc = "painted" => content' = content
        /\ pc \in {"wrapping", "painted"} => parsed' = parsed

\* C23 (purity): in every sequence of calls of the resolver and the
\* painters, no step of a call changes an argument, and the value each call
\* returns is one that its own arguments give, whatever was called before.
C23_Purity == []ResultOfArguments /\ [][ArgumentsKept]_vars

\* A painter has returned for a list of two annotations that is not in
\* ascending order of startOffset, with markers in its output.
C23_Witness ==
    /\ Painted
    /\ Len(annotations) = 2
    /\ annotations[1].startOffset > annotations[2].startOffset
    /\ Len(ranges) = 2
    /\ (fn = "text" => Len(content) = 2)
    /\ (fn = "html" => Cardinality(Markers(dom)) >= 2)

\* The tree when the loop of line 181 reaches node i of the span: the nodes
\* after it are wrapped.
RECURSIVE AfterNodes(_, _, _, _)
AfterNodes(d, nodes, i, range) ==
    IF i >= Len(nodes) THEN d
    ELSE WrapNode(AfterNodes(d, nodes, i + 1, range), nodes[i + 1], range)

\* The flattened offset at which the text node starts in the tree d.
NodeStartIn(d, node) ==
    LET leaves == TextLeaves(d, Root)
        at == IndexOf(leaves, node)
    IN  Len(ConcatData(d, SubSeq(leaves, 1, at - 1), 1))

\* C24 (offset map stays valid under mutation): the text-node map is the map
\* of the parsed tree all through the painting; when a span is processed,
\* each map entry that intersects it names a node that still starts at the
\* entry's startOffset, and the local range computed from the entry and the
\* node's current length holds exactly the characters of the parsed text
\* from max(span.start, entry.startOffset) to min(span.end, entry.endOffset).
C24_OffsetMapValid ==
    (fn = "html" /\ pc = "wrapping") =>
        /\ textNodes = buildTextNodeMap(parsed, Root)
        /\ LET r == sortedRanges[rangeIdx]
               nodes == IntersectingNodes(textNodes, r)
           IN  \A i \in 1..Len(nodes) :
                   LET d == AfterNodes(dom, nodes, i, r)
                       info == nodes[i]
                       length == Len(d[info.node].data)
                       nodeStart == Max2(0, r.start - info.startOffset)
                       nodeEnd == Min2(length, r.end - info.startOffset)
                       from == Max2(r.start, info.startOffset)
                       to == Min2(r.end, info.endOffset)
                   IN  /\ NodeStartIn(d, info.node) = info.startOffset
                       /\ nodeStart < nodeEnd
                       /\ SubSeq(d[info.node].data, nodeStart + 1, nodeEnd) =
                              Chars(from, to - from)

\* The second span of a painting is about to be wrapped in a leaf that the
\* first one has cut: the entry's endOffset is stale.
C24_Witness ==
    /\ fn = "html"
    /\ pc = "wrapping"
    /\ rangeIdx = 2
    /\ \E i \in 1..Len(textNodes) :
          /\ textNodes[i].endOffset > sortedRanges[rangeIdx].start
          /\ textNodes[i].startOffset < sortedRanges[rangeIdx].end
          /\ Len(dom[textNodes[i].node].data) <
                 textNodes[i].endOffset - textNodes[i].startOffset

ActiveIds == {activeAnnotations[k].id : k \in 1..Len(activeAnnotations)}

\* The ids of the annotations with startOffset <= o < endOffset.
OpenAt(o) ==
    {a.id : a \in {b \in Range(annotations) : b.startOffset <= o /\ o < b.endOffset}}

\* Every event of the offset of the last event applied has been applied.
OffsetDone ==
    /\ pc = "sweep"
    /\ eventIdx > 1
    /\ eventIdx > Len(events) \/ events[eventIdx].offset > lastOffset

\* C25 as claimed (active set of the sweep): after each event is applied the
\* active set holds exactly the annotations with
\* startOffset <= current offset < endOffset, each once.
C25_ActiveAfterEachEvent ==
    (pc = "sweep" /\ eventIdx > 1) =>
        /\ ActiveIds = OpenAt(lastOffset)
        /\ Cardinality(ActiveIds) = Len(activeAnnotations)

\* C25 as amended: the active set holds each annotation at most once at
\* every point of the sweep and, once every event of an offset is applied,
\* exactly the annotations with startOffset <= offset < endOffset; every end
\* event finds its annotation in the set, and after the last event the set
\* is empty.
C25_ActiveAtOffsetEnd ==
    /\ Cardinality(ActiveIds) = Len(activeAnnotations)
    /\ OffsetDone => ActiveIds = OpenAt(lastOffset)
    /\ (pc = "sweep" /\ eventIdx <= Len(events) /\ events[eventIdx].type = "end") =>
          FindIndex(activeAnnotations, events[eventIdx].annotation.id) >= 1
    /\ (pc = "sweep" /\ eventIdx > Len(events)) => activeAnnotations = <<>>

\* An end event and a start event of one offset are both applied, and the
\* annotation that started is the only active one.
C25_Witness ==
    /\ OffsetDone
    /\ eventIdx > 2
    /\ events[eventIdx - 2].offset = lastOffset
    /\ events[eventIdx - 2].type = "end"
    /\ events[eventIdx - 1].type = "start"
    /\ Len(activeAnnotations) = 1

\* The place of the id in the list of ids.
PlaceOf(ids, id) == CHOOSE k \in 1..Len(ids) : ids[k] = id

\* The ids x and y come in the same order in the lists p and q that both
\* hold them.
SameOrder(p, q, x, y) == (PlaceOf(p, x) < PlaceOf(p, y)) <=> (PlaceOf(q, x) < PlaceOf(q, y))

\* C26 (stable id order within one call): at every point of the sweep and
\* at its end, two ids that are both in the annotationIds of two spans, or
\* of a span and of the active array, come in the same order in both.
C26_StableIdOrder ==
    LET active == [k \in 1..Len(activeAnnotations) |-> activeAnnotations[k].id]
        lists == {ranges[r].annotationIds : r \in 1..Len(ranges)} \cup {active}
    IN  \A p, q \in lists :
            \A x, y \in Range(p) \cap Range(q) : SameOrder(p, q, x, y)

\* A span of three ids followed by a span of two of them, the one that is
\* gone not the last of the three.
C26_Witness ==
    /\ Resolved
    /\ \E r \in 1..(Len(ranges) - 1) :
          /\ Len(ranges[r].annotationIds) = 3
          /\ Len(ranges[r + 1].annotationIds) = 2
          /\ ranges[r].annotationIds[3] \in Range(ranges[r + 1].annotationIds)

\* The greatest number of mark elements open at once in the token stream
\* from token k on, depth of them being open at token k.
RECURSIVE MarkDepth(_, _, _)
MarkDepth(toks, k, depth) ==
    IF k > Len(toks) THEN depth
    ELSE IF toks[k].kind = "char" THEN MarkDepth(toks, k + 1, depth)
    ELSE IF toks[k].body = <<"/mark">> THEN Max2(depth, MarkDepth(toks, k + 1, depth - 1))
    ELSE Max2(depth + 1, MarkDepth(toks, k + 1, depth + 1))

\* The markers above the node n in the tree.
RECURSIVE MarkersAbove(_, _)
MarkersAbove(d, n) ==
    IF d[n].parent = 0 THEN {}
    ELSE (IF IsMarker(d, d[n].parent) THEN {d[n].parent} ELSE {})
         \cup MarkersAbove(d, d[n].parent)

\* C27 (markers never nest or overlap): in the output of either painter no
\* marker is inside another marker, every marker has exactly one child, a
\* text node, and every visible character is inside at most one marker.
C27_NoNesting ==
    Painted =>
        /\ fn = "text" =>
              LET marks == TextMarks
              IN  /\ MarkDepth(Tokens(result), 1, 0) <= 1
                  /\ \A i \in 1..Len(marks) : Len(marks[i].text) > 0
                  /\ \A i, j \in 1..Len(marks) :
                        i < j => marks[i].start + Len(marks[i].text) <= marks[j].start
        /\ fn = "html" =>
              LET marks == Markers(dom)
                  chars == [m \in marks |-> MarkerChars(dom, m)]
              IN  /\ \A m \in marks :
                        /\ MarkersAbove(dom, m) = {}
                        /\ Len(dom[m].children) = 1
                        /\ dom[dom[m].children[1]].kind = "text"
                        /\ Len(dom[dom[m].children[1]].data) > 0
                  /\ \A m, n \in marks : m # n => chars[m] \cap chars[n] = {}

\* The annotations of the list whose id the marker lists.  A marker of the
\* plain-text painter lists its ids in the span it was made of.
ContributorsOf(mk) ==
    {a \in Range(annotations) :
        \E r \in 1..Len(ranges) :
            /\ <<FirstId(ranges[r].annotationIds)>> = mk.primary
            /\ ranges[r].color = mk.color
            /\ a.id \in Range(ranges[r].annotationIds)}

\* C28 (primary id agrees with displayed color): while the pointer is over a
\* marker, the annotation the hover handler has resolved from the primary
\* id has the color the marker displays and is a most recently created one
\* of the marker's contributing annotations.
C28_PrimaryIsDisplayed ==
    (pc = "painted" /\ pointer.over = "mark") =>
        /\ hoveredAnnotation # <<>>
        /\ hoveredAnnotation[1].color = pointer.mark.color
        /\ hoveredAnnotation[1] \in Latest(ContributorsOf(pointer.mark))

\* C30 (tooltip is eventually hidden): at most one hide timeout is pending,
\* and whenever the pointer is over neither a marker nor the tooltip while
\* the tooltip is shown, the tooltip is hidden later or the pointer comes
\* over a marker or the tooltip again.
C30_EventuallyHidden ==
    /\ [](Cardinality(timers) <= 1)
    /\ (pointer.over = "away" /\ hoveredAnnotation # <<>>) ~>
           (pointer.over # "away" \/ hoveredAnnotation = <<>>)

\* C29 (annotation list consistent under overlapping requests): once every
\* request the page has issued has been answered with success and its
\* handler has run, the annotations the page holds and has painted are
\* exactly the rows of the store.
C29_ListConsistent ==
    (pc = "painted" /\ requests # {} /\ \A r \in requests : r.phase = "applied") =>
        Range(annotations) = Range(store)

====
